---- MODULE Spec2Model ----
(***************************************************************************)
(* A model of msposd.py: the OSD frame grid (Frame, FrameBetaflight,       *)
(* FrameInav), the frame stream Reader and the Track builder.              *)
(*                                                                         *)
(* Python values are modelled as follows.  A str or bytes value is a       *)
(* sequence of character codes.  A glyph grid (array.array('H')) is a      *)
(* function from the flattened indices of its non-blank cells to their     *)
(* 16-bit codes; every other cell holds 0.  The pair returned by an        *)
(* extract_* method is a record [exc, has, val, next]: exc names the       *)
(* exception raised ("" when the call returns), has is FALSE when the      *)
(* value is None, and next is NoChar when the terminator is None.          *)
(***************************************************************************)
EXTENDS Integers, Sequences, FiniteSets, TLC

VARIABLES
    fr,       \* the Frame object under test: [cls, frame_idx, ar]
    out,      \* results of the calls made on fr so far: call -> result
    file,     \* the .osd file: [hlen, magic, version, font_variant, blocks, tail]
    rd,       \* the Reader object: [state, font_variant, iter_index]
    ret,      \* the last call made on the Reader and what it produced
    nexts,    \* number of __next__ calls since iteration began
    args,     \* Track.__init__ arguments: [onerror, fps]
    trk       \* Track.__init__ in progress: [pc, prev, points]

vars == <<fr, out, file, rd, ret, nexts, args, trk>>

----------------------------------------------------------------------------
(* Module-level constants of msposd.py *)

OSD_VERSION == 1
MAX_X == 60
MAX_Y == 22
MAX_T == MAX_X * MAX_Y

\* b'MSPOSD\x00'
OSD_MAGIC == <<77, 83, 80, 79, 83, 68, 0>>

CharsBetaflight_ALT == 127
CharsBetaflight_LAT == 137
CharsBetaflight_LON == 152
CharsBetaflight_SPEED == 112

CharsInav_LAT == 3
CharsInav_LON == 4
CharsInav_WATT == 113
CharsInav_ALT == 118
CharsInav_SPEED_KMPH == 144
CharsInav_SPEED_MPH == 145
CharsInav_SPEED_KT == 146

FontVariant_BETAFLIGHT == 1
FontVariant_INAV == 2

\* struct.calcsize(b'<7sHBBBBHHB') and struct.calcsize(b'<II')
Reader_HEADER_SIZE == 7 + 2 + 1 + 1 + 1 + 1 + 2 + 2 + 1
Frame_HEADER_SIZE == 4 + 4

----------------------------------------------------------------------------
(* Python values *)

\* None in the place of a terminator glyph
NoChar == -1

\* ord(b'W'), ord(b'0'), ord(b'.'), ord(b' ')
OrdW == 87
Ord0 == 48
OrdPoint == 46
OrdSpace == 32

\* b'0123456789'
digits == Ord0 .. (Ord0 + 9)

\* the default allowed_chars, b'0123456789.-: '
allowed_chars == digits \cup {OrdPoint, 45, 58, OrdSpace}

\* (None, None)
NoneNone == [exc |-> "", has |-> FALSE, val |-> <<>>, next |-> NoChar]

\* return s, next_char
Ret(s, next_char) == [exc |-> "", has |-> TRUE, val |-> s, next |-> next_char]

\* an exception leaving the call
Raise(e) == [exc |-> e, has |-> FALSE, val |-> <<>>, next |-> NoChar]

\* `ch in b'...'` raises ValueError unless 0 <= ch < 256
ByteRange(ch) == 0 <= ch /\ ch <= 255

\* sl[::-1]
Reverse(s) == [i \in 1 .. Len(s) |-> s[Len(s) + 1 - i]]

\* str.strip(): of the characters a walk can collect only the space is whitespace
RECURSIVE LStrip(_)
LStrip(s) == IF s # <<>> /\ Head(s) = OrdSpace THEN LStrip(Tail(s)) ELSE s

strip(s) == Reverse(LStrip(Reverse(LStrip(s))))

----------------------------------------------------------------------------
(* class Frame *)

\* self.ar[i] for 0 <= i < MAX_T
At(ar, i) == IF i \in DOMAIN ar THEN ar[i] ELSE 0

\* self.ar[i] for any integer i: Python wraps a negative index once and
\* raises IndexError outside -MAX_T .. MAX_T-1
PyIndexOk(i) == -MAX_T <= i /\ i < MAX_T

PyAt(ar, i) == IF i < 0 THEN At(ar, i + MAX_T) ELSE At(ar, i)

\* Frame.cell(x, y)
cell(ar, x, y) ==
    IF x >= MAX_X \/ y >= MAX_Y THEN [exc |-> "ValueError", v |-> NoChar]
    ELSE IF ~PyIndexOk(x * MAX_Y + y) THEN [exc |-> "IndexError", v |-> NoChar]
    ELSE [exc |-> "", v |-> PyAt(ar, x * MAX_Y + y)]

\* Frame.__getitem__((x, y))
getitem(ar, x, y) == cell(ar, x, y)

\* the tuple Frame.line(y) builds, indexed from 0
LineTuple(ar, y) == [x \in 0 .. (MAX_X - 1) |-> At(ar, x * MAX_Y + y)]

\* Frame.line(y)
line(ar, y) ==
    IF y < 0 \/ y >= MAX_Y THEN [exc |-> "ValueError", v |-> <<>>]
    ELSE [exc |-> "", v |-> LineTuple(ar, y)]

\* line[::-1]
ReverseLine(ln) == [i \in 0 .. (MAX_X - 1) |-> ln[MAX_X - 1 - i]]

\* self.ar.index(tag): the first flattened index holding tag, NoChar when
\* array.index raises ValueError
index(ar, tag) ==
    LET hits == IF tag # 0 THEN {i \in DOMAIN ar : ar[i] = tag}
                ELSE {i \in 0 .. (MAX_T - 1) : At(ar, i) = tag}
    IN  IF hits = {} THEN NoChar
        ELSE CHOOSE i \in hits : \A j \in hits : i <= j

----------------------------------------------------------------------------
(* class FrameBetaflight *)

\* the loop of FrameBetaflight.extract_value over line[i], i = x+1 .. 59:
\* [exc, sl, next_char] when it ends
RECURSIVE WalkBetaflight(_, _, _, _)
WalkBetaflight(ln, i, sl, allowed) ==
    IF i >= MAX_X THEN [exc |-> "", sl |-> sl, next_char |-> NoChar]
    ELSE IF ~ByteRange(ln[i]) THEN [exc |-> "ValueError", sl |-> sl, next_char |-> NoChar]
    ELSE IF ln[i] \in allowed THEN WalkBetaflight(ln, i + 1, Append(sl, ln[i]), allowed)
    ELSE [exc |-> "", sl |-> sl, next_char |-> ln[i]]

\* FrameBetaflight.extract_value(tag, reverse, allowed_chars)
Betaflight_extract_value(ar, tag, reverse, allowed) ==
    LET idx == index(ar, tag) IN
    IF idx = NoChar THEN NoneNone
    ELSE
        LET x0 == idx \div MAX_Y
            y  == idx % MAX_Y
            ln == IF reverse THEN ReverseLine(LineTuple(ar, y)) ELSE LineTuple(ar, y)
            x  == IF reverse THEN MAX_X - 1 - x0 ELSE x0
            w  == WalkBetaflight(ln, x + 1, <<>>, allowed)
        IN  IF w.exc # "" THEN Raise(w.exc)
            ELSE IF reverse THEN Ret(strip(Reverse(w.sl)), tag)
            ELSE Ret(strip(w.sl), w.next_char)

Betaflight_extract_lat(ar) == Betaflight_extract_value(ar, CharsBetaflight_LAT, FALSE, allowed_chars)

Betaflight_extract_lon(ar) == Betaflight_extract_value(ar, CharsBetaflight_LON, FALSE, allowed_chars)

Betaflight_extract_alt(ar) == Betaflight_extract_value(ar, CharsBetaflight_ALT, FALSE, allowed_chars)

Betaflight_extract_speed(ar) == Betaflight_extract_value(ar, CharsBetaflight_SPEED, FALSE, allowed_chars)

\* the inner loop of extract_power, for i in range(x, -1, -1): every digit of
\* the row at or left of column x is inserted at the front of s
RECURSIVE PowerDigits(_, _, _)
PowerDigits(ln, i, s) ==
    IF i < 0 THEN [exc |-> "", s |-> s]
    ELSE IF ~ByteRange(ln[i]) THEN [exc |-> "ValueError", s |-> s]
    ELSE IF ln[i] \in digits THEN PowerDigits(ln, i - 1, <<ln[i]>> \o s)
    ELSE PowerDigits(ln, i - 1, s)

\* the outer loop of extract_power, for idx, v in enumerate(self.ar), resumed
\* at flattened index `from`
RECURSIVE PowerScan(_, _)
PowerScan(ar, from) ==
    LET ws == {i \in DOMAIN ar : i >= from /\ ar[i] = OrdW} IN
    IF ws = {} THEN NoneNone
    ELSE
        LET idx == CHOOSE i \in ws : \A j \in ws : i <= j IN
        IF ~PyIndexOk(idx - MAX_Y) THEN Raise("IndexError")
        ELSE IF ~ByteRange(PyAt(ar, idx - MAX_Y)) THEN Raise("ValueError")
        ELSE IF PyAt(ar, idx - MAX_Y) \notin digits THEN PowerScan(ar, idx + 1)
        ELSE IF ~PyIndexOk(idx + MAX_Y) THEN Raise("IndexError")
        ELSE IF ~ByteRange(PyAt(ar, idx + MAX_Y)) THEN Raise("ValueError")
        ELSE IF PyAt(ar, idx + MAX_Y) \notin {0, OrdSpace} THEN PowerScan(ar, idx + 1)
        ELSE
            LET d == PowerDigits(LineTuple(ar, idx % MAX_Y), idx \div MAX_Y, <<>>) IN
            IF d.exc # "" THEN Raise(d.exc) ELSE Ret(d.s, OrdW)

\* FrameBetaflight.extract_power()
Betaflight_extract_power(ar) == PowerScan(ar, 0)

----------------------------------------------------------------------------
(* class FrameInav *)

\* InavChs with the backward walk forgetting the half_point flag: a glyph
\* 0xA1-0xAA met after its 0xB1-0xBA partner emits a second point
Mut_InavChs(ch, reverse, half_point) ==
    IF reverse THEN
        IF 161 <= ch /\ ch <= 170 THEN
            [chs |-> <<OrdPoint, ch - 161 + Ord0>>, half_point |-> half_point]
        ELSE IF 177 <= ch /\ ch <= 186 THEN
            [chs |-> <<ch - 177 + Ord0, OrdPoint>>, half_point |-> TRUE]
        ELSE [chs |-> <<ch>>, half_point |-> FALSE]
    ELSE
        IF 161 <= ch /\ ch <= 170 THEN
            [chs |-> <<ch - 161 + Ord0, OrdPoint>>, half_point |-> TRUE]
        ELSE IF 177 <= ch /\ ch <= 186 THEN
            IF half_point THEN [chs |-> <<ch - 177 + Ord0>>, half_point |-> FALSE]
            ELSE [chs |-> <<OrdPoint, ch - 177 + Ord0>>, half_point |-> half_point]
        ELSE [chs |-> <<ch>>, half_point |-> FALSE]

\* chs and the new half_point for one glyph of the walk (the "digits with a
\* point" branches of FrameInav.extract_value)
InavChs(ch, reverse, half_point) ==
    IF reverse THEN
        IF 161 <= ch /\ ch <= 170 THEN
            IF half_point THEN [chs |-> <<ch - 161 + Ord0>>, half_point |-> FALSE]
            ELSE [chs |-> <<OrdPoint, ch - 161 + Ord0>>, half_point |-> half_point]
        ELSE IF 177 <= ch /\ ch <= 186 THEN
            [chs |-> <<ch - 177 + Ord0, OrdPoint>>, half_point |-> TRUE]
        ELSE [chs |-> <<ch>>, half_point |-> FALSE]
    ELSE
        IF 161 <= ch /\ ch <= 170 THEN
            [chs |-> <<ch - 161 + Ord0, OrdPoint>>, half_point |-> TRUE]
        ELSE IF 177 <= ch /\ ch <= 186 THEN
            IF half_point THEN [chs |-> <<ch - 177 + Ord0>>, half_point |-> FALSE]
            ELSE [chs |-> <<OrdPoint, ch - 177 + Ord0>>, half_point |-> half_point]
        ELSE [chs |-> <<ch>>, half_point |-> FALSE]

\* the loop of FrameInav.extract_value over line[i], i = x+1 .. 59
RECURSIVE WalkInav(_, _, _, _, _, _)
WalkInav(ln, i, sl, half_point, reverse, allowed) ==
    IF i >= MAX_X THEN [exc |-> "", sl |-> sl, next_char |-> NoChar]
    ELSE
        LET d == InavChs(ln[i], reverse, half_point) IN
        \* all(x in allowed_chars for x in chs) stops at the first failure
        IF ~ByteRange(d.chs[1]) THEN [exc |-> "ValueError", sl |-> sl, next_char |-> NoChar]
        ELSE IF \A k \in 1 .. Len(d.chs) : d.chs[k] \in allowed
             THEN WalkInav(ln, i + 1, sl \o d.chs, d.half_point, reverse, allowed)
        ELSE [exc |-> "", sl |-> sl, next_char |-> ln[i]]

\* FrameInav.extract_value(tag, reverse, allowed_chars)
Inav_extract_value(ar, tag, reverse, allowed) ==
    LET idx == index(ar, tag) IN
    IF idx = NoChar THEN NoneNone
    ELSE
        LET x0 == idx \div MAX_Y
            y  == idx % MAX_Y
            ln == IF reverse THEN ReverseLine(LineTuple(ar, y)) ELSE LineTuple(ar, y)
            x  == IF reverse THEN MAX_X - 1 - x0 ELSE x0
            w  == WalkInav(ln, x + 1, <<>>, FALSE, reverse, allowed)
        IN  IF w.exc # "" THEN Raise(w.exc)
            ELSE IF reverse THEN Ret(strip(Reverse(w.sl)), tag)
            ELSE Ret(strip(w.sl), w.next_char)

\* Inav_extract_lat with reverse=True passed, as extract_alt passes it
Mut_Inav_extract_lat(ar) == Inav_extract_value(ar, CharsInav_LAT, TRUE, allowed_chars)

Inav_extract_lat(ar) == Inav_extract_value(ar, CharsInav_LAT, FALSE, allowed_chars)

Inav_extract_lon(ar) == Inav_extract_value(ar, CharsInav_LON, FALSE, allowed_chars)

Inav_extract_alt(ar) == Inav_extract_value(ar, CharsInav_ALT, TRUE, allowed_chars)

\* the loop of FrameInav.extract_speed over the tags still to try
RECURSIVE SpeedLoop(_, _)
SpeedLoop(ar, tags) ==
    IF tags = <<>> THEN NoneNone
    ELSE
        LET r == Inav_extract_value(ar, Head(tags), TRUE, allowed_chars) IN
        IF r.exc # "" THEN r
        ELSE IF r.has /\ r.val # <<>> THEN r
        ELSE SpeedLoop(ar, Tail(tags))

\* SpeedTags with mph tried before km/h
Mut_SpeedTags == <<CharsInav_SPEED_MPH, CharsInav_SPEED_KMPH, CharsInav_SPEED_KT>>

\* the tuple of tags FrameInav.extract_speed iterates over
SpeedTags == <<CharsInav_SPEED_KMPH, CharsInav_SPEED_MPH, CharsInav_SPEED_KT>>

Inav_extract_speed(ar) == SpeedLoop(ar, SpeedTags)

Inav_extract_power(ar) == Inav_extract_value(ar, CharsInav_WATT, TRUE, allowed_chars)

----------------------------------------------------------------------------
(* Method dispatch on the frame's class *)

extract_value(f, tag, reverse) ==
    IF f.cls = "FrameBetaflight" THEN Betaflight_extract_value(f.ar, tag, reverse, allowed_chars)
    ELSE Inav_extract_value(f.ar, tag, reverse, allowed_chars)

extract_lat(f) ==
    IF f.cls = "FrameBetaflight" THEN Betaflight_extract_lat(f.ar) ELSE Inav_extract_lat(f.ar)

extract_lon(f) ==
    IF f.cls = "FrameBetaflight" THEN Betaflight_extract_lon(f.ar) ELSE Inav_extract_lon(f.ar)

extract_alt(f) ==
    IF f.cls = "FrameBetaflight" THEN Betaflight_extract_alt(f.ar) ELSE Inav_extract_alt(f.ar)

extract_speed(f) ==
    IF f.cls = "FrameBetaflight" THEN Betaflight_extract_speed(f.ar) ELSE Inav_extract_speed(f.ar)

extract_power(f) ==
    IF f.cls = "FrameBetaflight" THEN Betaflight_extract_power(f.ar) ELSE Inav_extract_power(f.ar)

----------------------------------------------------------------------------
(* Test grids and the state outside the part of the program a specification *)
(* exercises                                                                *)

\* the grid holding the glyphs of s in row y from column x0 on, blank elsewhere
Place(x0, y, s) ==
    LET ks == {k \in 1 .. Len(s) : s[k] # 0}
        at == {(x0 + k - 1) * MAX_Y + y : k \in ks}
    IN  [i \in at |-> s[(i - y) \div MAX_Y - x0 + 1]]

\* all sequences over S of length at most n
SeqsUpTo(S, n) == UNION {[1 .. k -> S] : k \in 0 .. n}

FrameClasses == {"FrameBetaflight", "FrameInav"}

MkFrame(cls, ar) == [cls |-> cls, frame_idx |-> 0, ar |-> ar]

NoFrame == MkFrame("FrameBetaflight", <<>>)

NoFile == [hlen |-> 0, magic |-> <<>>, version |-> 0, font_variant |-> 0,
           blocks |-> <<>>, tail |-> 0]

NoReader == [state |-> "none", font_variant |-> 0, iter_index |-> 0]

NoRet == [op |-> "", arg |-> 0, res |-> [exc |-> "", none |-> TRUE, frame |-> NoFrame]]

NoTrack == [pc |-> "idle", prev |-> <<>>, points |-> <<>>]

DefaultArgs == [onerror |-> "prev", fps |-> 60]

ReaderIdle == file = NoFile /\ rd = NoReader /\ ret = NoRet /\ nexts = 0

TrackIdle == args = DefaultArgs /\ trk = NoTrack

FrameIdle == fr = NoFrame /\ out = <<>>

\* number of calls on one frame a behaviour records
MaxCalls == 2

\* the call c on the frame under test can still be recorded
CanLog(c) == Cardinality(DOMAIN out) < MaxCalls /\ c \notin DOMAIN out

\* the record of calls once call c has returned (or raised) r
Logged(c, r) == out @@ (c :> r)

\* everything but the record of calls
others == <<fr, file, rd, ret, nexts, args, trk>>

----------------------------------------------------------------------------
(* Grid access: Frame.cell, Frame.__getitem__, Frame.line *)

\* glyphs in the four corners and next to them, all different
CornerGrid ==
    Place(0, 0, <<65, 66>>) @@ Place(0, MAX_Y - 1, <<67, 68>>)
    @@ Place(MAX_X - 2, 0, <<69, 70>>) @@ Place(MAX_X - 2, MAX_Y - 1, <<71, 72>>)

\* how far beyond the grid the indices tried reach
Beyond == 1

XArgs == ((-MAX_X - Beyond) .. (-MAX_X + 1)) \cup (-Beyond .. 1)
         \cup ((MAX_X - 2) .. (MAX_X - 1 + Beyond))

YArgs == ((-MAX_Y - Beyond) .. (-MAX_Y + 1)) \cup (-Beyond .. 1)
         \cup ((MAX_Y - 2) .. (MAX_Y - 1 + Beyond))

CallCell ==
    \E x \in XArgs, y \in YArgs :
        /\ CanLog(<<"cell", x, y>>)
        /\ out' = Logged(<<"cell", x, y>>, cell(fr.ar, x, y))
        /\ UNCHANGED others

CallGetitem ==
    \E x \in XArgs, y \in YArgs :
        /\ CanLog(<<"getitem", x, y>>)
        /\ out' = Logged(<<"getitem", x, y>>, getitem(fr.ar, x, y))
        /\ UNCHANGED others

CallLine ==
    \E y \in YArgs :
        /\ CanLog(<<"line", 0, y>>)
        /\ out' = Logged(<<"line", 0, y>>, line(fr.ar, y))
        /\ UNCHANGED others

InitCell ==
    /\ fr \in {MkFrame(c, CornerGrid) : c \in FrameClasses}
    /\ out = <<>>
    /\ ReaderIdle /\ TrackIdle

NextCell == CallCell \/ CallGetitem \/ CallLine

SpecCell == InitCell /\ [][NextCell]_vars

InBounds(x, y) == 0 <= x /\ x < MAX_X /\ 0 <= y /\ y < MAX_Y

\* C10: cell(x, y) and frame[x, y] raise for every x outside 0..59 or y outside
\* 0..21 (negative ones included) and line(y) raises for every y outside 0..21;
\* in bounds, cell(x, y) returns the glyph stored at flattened index x*22 + y.
C10_FailFast ==
    \A c \in DOMAIN out :
        /\ c[1] \in {"cell", "getitem"} =>
              IF InBounds(c[2], c[3])
              THEN out[c].exc = "" /\ out[c].v = At(fr.ar, c[2] * MAX_Y + c[3])
              ELSE out[c].exc # ""
        /\ c[1] = "line" => (out[c].exc # "" <=> ~(0 <= c[3] /\ c[3] < MAX_Y))

----------------------------------------------------------------------------
(* What the documentation of extract_value promises, stated on the grid *)

\* the glyph in column x of row y, NoChar outside the row
RowAt(ar, x, y) == IF 0 <= x /\ x < MAX_X THEN At(ar, x * MAX_Y + y) ELSE NoChar

\* the length of the maximal run of allowed characters next to column x of
\* row y, to the right (dir = 1) or to the left (dir = -1)
RunLen(ar, x, y, dir) ==
    CHOOSE n \in 0 .. MAX_X :
        /\ \A k \in 1 .. n : RowAt(ar, x + dir * k, y) \in allowed_chars
        /\ RowAt(ar, x + dir * (n + 1), y) \notin allowed_chars

\* the first cell holding tag in column-major order (tag occurs in the grid)
FirstTag(ar, tag) ==
    CHOOSE i \in DOMAIN ar : ar[i] = tag /\ \A j \in DOMAIN ar : ar[j] = tag => i <= j

\* the run after the tag, its stopping glyph as terminator
RunAfter(ar, tag) ==
    LET i == FirstTag(ar, tag)
        x == i \div MAX_Y
        y == i % MAX_Y
        n == RunLen(ar, x, y, 1)
    IN  Ret(strip([k \in 1 .. n |-> RowAt(ar, x + k, y)]), RowAt(ar, x + n + 1, y))

\* the run before the tag in reading order, the tag as terminator
RunBefore(ar, tag) ==
    LET i == FirstTag(ar, tag)
        x == i \div MAX_Y
        y == i % MAX_Y
        n == RunLen(ar, x, y, -1)
    IN  Ret(strip([k \in 1 .. n |-> RowAt(ar, x - n - 1 + k, y)]), tag)

TagPresent(ar, tag) == \E i \in DOMAIN ar : ar[i] = tag

Documented(ar, tag, reverse) ==
    IF ~TagPresent(ar, tag) THEN NoneNone
    ELSE IF reverse THEN RunBefore(ar, tag) ELSE RunAfter(ar, tag)

----------------------------------------------------------------------------
(* extract_value on both frame classes *)

\* longest run of characters written on either side of a tag
MaxRun == 2

\* '1' and ' '
RunChars == {49, OrdSpace}

\* glyphs that end a run: blank, an icon below 0x100, icons above 0xFF
StopGlyphs == {0, 12, 256, 65535}

\* a row "pre tag post stop"
TaggedRow(pre, tag, post, stop) == pre \o <<tag>> \o post \o <<stop>>

\* the columns a row of n glyphs is written at: the left edge, one off it,
\* and flush with the right edge
Columns(n) == {0, 1, MAX_X - n}

ValueGrids ==
    UNION { { Place(x0, y, TaggedRow(pre, CharsBetaflight_LAT, post, stop))
              : x0 \in Columns(Len(pre) + Len(post) + 2), y \in {0, MAX_Y - 1} }
            : pre \in SeqsUpTo(RunChars, MaxRun), post \in SeqsUpTo(RunChars, MaxRun),
              stop \in StopGlyphs }

CallExtractValue ==
    \E tag \in {CharsBetaflight_LAT, CharsBetaflight_LON}, reverse \in BOOLEAN :
        /\ CanLog(<<"extract_value", tag, reverse>>)
        /\ out' = Logged(<<"extract_value", tag, reverse>>, extract_value(fr, tag, reverse))
        /\ UNCHANGED others

InitValue ==
    /\ fr \in {MkFrame(c, g) : c \in FrameClasses, g \in ValueGrids}
    /\ out = <<>>
    /\ ReaderIdle /\ TrackIdle

NextValue == CallExtractValue

SpecValue == InitValue /\ [][NextValue]_vars

\* C5: extract_value returns (None, None) when the tag is absent; otherwise the
\* trimmed maximal run of allowed characters next to the first tag occurrence,
\* with the stopping glyph (forward) or the tag (backward) as terminator, for
\* every 16-bit stopping glyph, those above 0xFF included.
C5_DocumentedResult ==
    \A c \in DOMAIN out : out[c] = Documented(fr.ar, c[2], c[3])

----------------------------------------------------------------------------
(* The per-quantity wrappers extract_lat .. extract_power *)

BetaflightTags ==
    {CharsBetaflight_LAT, CharsBetaflight_LON, CharsBetaflight_ALT, CharsBetaflight_SPEED}

InavSpeedTags == {CharsInav_SPEED_KMPH, CharsInav_SPEED_MPH, CharsInav_SPEED_KT}

InavTags == {CharsInav_LAT, CharsInav_LON, CharsInav_ALT, CharsInav_WATT} \cup InavSpeedTags

\* the grid holding rows[k] in row y + k - 1, each from column x0 on
RECURSIVE Stack(_, _, _)
Stack(rows, x0, y) ==
    IF rows = <<>> THEN <<>>
    ELSE Place(x0, y, Head(rows)) @@ Stack(Tail(rows), x0, y + 1)

BetaflightTagSeq ==
    <<CharsBetaflight_LAT, CharsBetaflight_LON, CharsBetaflight_ALT, CharsBetaflight_SPEED>>

InavTagSeq ==
    <<CharsInav_LAT, CharsInav_LON, CharsInav_ALT, CharsInav_WATT,
      CharsInav_SPEED_KMPH, CharsInav_SPEED_MPH, CharsInav_SPEED_KT>>

\* one row per tag of a variant, '1's before the tag and '3's after it: the two
\* sides of a tag read differently
WrapGrids ==
    UNION { { Stack([k \in 1 .. Len(tags) |-> TaggedRow(pre, tags[k], post, 0)], x0, 0)
              : x0 \in Columns(Len(pre) + Len(post) + 1) }
            : pre \in SeqsUpTo({49}, MaxRun), post \in SeqsUpTo({51}, MaxRun),
              tags \in {BetaflightTagSeq, InavTagSeq} }

CallExtractLat ==
    /\ CanLog("extract_lat")
    /\ out' = Logged("extract_lat", extract_lat(fr))
    /\ UNCHANGED others

CallExtractLon ==
    /\ CanLog("extract_lon")
    /\ out' = Logged("extract_lon", extract_lon(fr))
    /\ UNCHANGED others

CallExtractAlt ==
    /\ CanLog("extract_alt")
    /\ out' = Logged("extract_alt", extract_alt(fr))
    /\ UNCHANGED others

CallExtractSpeed ==
    /\ CanLog("extract_speed")
    /\ out' = Logged("extract_speed", extract_speed(fr))
    /\ UNCHANGED others

CallExtractPower ==
    /\ CanLog("extract_power")
    /\ out' = Logged("extract_power", extract_power(fr))
    /\ UNCHANGED others

InitWrap ==
    /\ fr \in {MkFrame(c, g) : c \in FrameClasses, g \in WrapGrids}
    /\ out = <<>>
    /\ ReaderIdle /\ TrackIdle

NextWrap ==
    \/ CallExtractLat
    \/ CallExtractLon
    \/ CallExtractAlt
    \/ CallExtractSpeed
    \/ CallExtractPower

SpecWrap == InitWrap /\ [][NextWrap]_vars

\* the tag of a quantity that has a single one
TagOf(cls, q) ==
    IF cls = "FrameBetaflight"
    THEN CASE q = "extract_lat" -> CharsBetaflight_LAT
           [] q = "extract_lon" -> CharsBetaflight_LON
           [] q = "extract_alt" -> CharsBetaflight_ALT
           [] q = "extract_speed" -> CharsBetaflight_SPEED
    ELSE CASE q = "extract_lat" -> CharsInav_LAT
           [] q = "extract_lon" -> CharsInav_LON
           [] q = "extract_alt" -> CharsInav_ALT
           [] q = "extract_power" -> CharsInav_WATT

\* two results carry the same value (the terminators may differ)
SameValue(r1, r2) == r1.exc = r2.exc /\ r1.has = r2.has /\ r1.val = r2.val

\* the value of q is the run after its tag
ScansForward(q) == SameValue(out[q], Documented(fr.ar, TagOf(fr.cls, q), FALSE))

\* the value of q is the run before its tag
ScansBackward(q) == SameValue(out[q], Documented(fr.ar, TagOf(fr.cls, q), TRUE))

\* the speed of Variant B, when one is returned, is the run before a speed tag
SpeedScansBackward ==
    out["extract_speed"].has =>
        \E t \in InavSpeedTags : SameValue(out["extract_speed"], Documented(fr.ar, t, TRUE))

\* C6 as stated: every Variant A tagged quantity scans forward and every
\* Variant B quantity scans backward.
C6_AllInavBackward ==
    \A q \in DOMAIN out :
        /\ (fr.cls = "FrameBetaflight" /\ q # "extract_power") => ScansForward(q)
        /\ (fr.cls = "FrameInav" /\ q # "extract_speed") => ScansBackward(q)
        /\ (fr.cls = "FrameInav" /\ q = "extract_speed") => SpeedScansBackward

\* C6 (amended): Variant A latitude, longitude, altitude and speed scan forward;
\* Variant B altitude, speed and power scan backward, and Variant B latitude and
\* longitude scan forward.
C6_ScanDirections ==
    \A q \in DOMAIN out :
        /\ (fr.cls = "FrameBetaflight" /\ q # "extract_power") => ScansForward(q)
        /\ (fr.cls = "FrameInav" /\ q \in {"extract_lat", "extract_lon"}) => ScansForward(q)
        /\ (fr.cls = "FrameInav" /\ q \in {"extract_alt", "extract_power"}) => ScansBackward(q)
        /\ (fr.cls = "FrameInav" /\ q = "extract_speed") => SpeedScansBackward

\* a Variant B frame with '1' before and '3' after each of its tags was read:
\* latitude came from the right of its tag, altitude from the left
C6_Witness ==
    /\ fr.cls = "FrameInav"
    /\ DOMAIN out = {"extract_lat", "extract_alt"}
    /\ out["extract_lat"].val = <<51>>
    /\ out["extract_alt"].val = <<49>>

----------------------------------------------------------------------------
(* FrameInav.extract_speed and its three tags *)

\* the priority order of the speed tags: km/h, mph, knots
SpeedOrder == <<CharsInav_SPEED_KMPH, CharsInav_SPEED_MPH, CharsInav_SPEED_KT>>

\* what is written for speed tag k: nothing, or the tag with a run of the digit
\* '4'+k and spaces before it
SpeedRows(k) ==
    {<<>>} \cup {pre \o <<SpeedOrder[k]>> : pre \in SeqsUpTo({52 + k, OrdSpace}, MaxRun)}

\* the three tags in rows 0, 1, 2 from the top or from the bottom
SpeedGrids ==
    { Place(0, IF up THEN 0 ELSE 2, r1) @@ Place(0, 1, r2) @@ Place(0, IF up THEN 2 ELSE 0, r3)
      : r1 \in SpeedRows(1), r2 \in SpeedRows(2), r3 \in SpeedRows(3), up \in BOOLEAN }

InitSpeed ==
    /\ fr \in {MkFrame("FrameInav", g) : g \in SpeedGrids}
    /\ out = <<>>
    /\ ReaderIdle /\ TrackIdle

NextSpeed == CallExtractSpeed \/ CallExtractPower

SpecSpeed == InitSpeed /\ [][NextSpeed]_vars

\* the positions in SpeedOrder of the tags present in the grid
SpeedPresent == {k \in 1 .. 3 : TagPresent(fr.ar, SpeedOrder[k])}

\* ... and of those with a non-empty run before them
SpeedNonEmpty == {k \in SpeedPresent : RunBefore(fr.ar, SpeedOrder[k]).val # <<>>}

Least(S) == CHOOSE k \in S : \A j \in S : k <= j

\* C7 as stated: extract_speed returns the extraction result of the first of
\* km/h, mph, knots present in the grid, an empty value included, and
\* (None, None) only when none of the three tags occurs.
C7_FirstPresentWins ==
    "extract_speed" \in DOMAIN out =>
        out["extract_speed"] =
            IF SpeedPresent = {} THEN NoneNone
            ELSE RunBefore(fr.ar, SpeedOrder[Least(SpeedPresent)])

\* C7 (amended): extract_speed returns the extraction result of the first of
\* km/h, mph, knots whose run is non-empty; a tag with an empty run is passed
\* over, and (None, None) is returned when no tag has a non-empty run.
C7_FirstNonEmptyWins ==
    "extract_speed" \in DOMAIN out =>
        out["extract_speed"] =
            IF SpeedNonEmpty = {} THEN NoneNone
            ELSE RunBefore(fr.ar, SpeedOrder[Least(SpeedNonEmpty)])

\* km/h is present with nothing before it, mph and knots both have digits:
\* extract_speed returned the mph reading
C7_Witness ==
    /\ "extract_speed" \in DOMAIN out
    /\ SpeedPresent = {1, 2, 3}
    /\ SpeedNonEmpty = {2, 3}
    /\ out["extract_speed"] = Ret(<<54>>, CharsInav_SPEED_MPH)

----------------------------------------------------------------------------
(* Split-digit decoding in FrameInav.extract_value *)

\* longest run of digits and split-digit glyphs decoded
MaxSplit == 3

\* '1', and split-digit glyphs of both ranges: 0xA3, 0xAA, 0xB1, 0xB4
SplitChars == {49, 163, 170, 177, 180}

\* row 0: the latitude tag followed by the run (scanned forward);
\* row 1: the same run followed by the altitude tag (scanned backward)
SplitGrid(run, x0) ==
    Place(x0, 0, <<CharsInav_LAT>> \o run) @@ Place(x0, 1, run \o <<CharsInav_ALT>>)

\* the run written in both rows of a SplitGrid
RunOf(ar) ==
    LET x == index(ar, CharsInav_LAT) \div MAX_Y
        n == CHOOSE k \in 0 .. MAX_X : RowAt(ar, x + k, 1) = CharsInav_ALT
    IN  [k \in 1 .. n |-> RowAt(ar, x + k, 0)]

InitSplit ==
    /\ fr \in { MkFrame("FrameInav", SplitGrid(run, x0))
                : run \in SeqsUpTo(SplitChars, MaxSplit), x0 \in {0, MAX_X - 1 - MaxSplit} }
    /\ out = <<>>
    /\ ReaderIdle /\ TrackIdle

NextSplit == CallExtractLat \/ CallExtractAlt

SpecSplit == InitSplit /\ [][NextSplit]_vars

\* C9: a run of ASCII digits and split-digit glyphs decodes to the same string
\* after the tag with a forward scan and before the tag with a backward scan;
\* the run '1', 0xA3, 0xB4 decodes to "12.3" in both directions.
C9_DirectionSymmetric ==
    /\ {"extract_lat", "extract_alt"} \subseteq DOMAIN out =>
          /\ out["extract_lat"].has /\ out["extract_alt"].has
          /\ out["extract_lat"].val = out["extract_alt"].val
    /\ RunOf(fr.ar) = <<49, 163, 180>> =>
          \A q \in DOMAIN out : out[q].has /\ out[q].val = <<49, 50, OrdPoint, 51>>

\* the run '1', 0xA3, 0xB4 was decoded in both directions
C9_Witness ==
    /\ RunOf(fr.ar) = <<49, 163, 180>>
    /\ DOMAIN out = {"extract_lat", "extract_alt"}
    /\ out["extract_alt"].val = <<49, 50, OrdPoint, 51>>

----------------------------------------------------------------------------
(* FrameBetaflight.extract_power *)

\* longest stretch of glyphs written further left of the digit before 'W'
MaxLeft == 2

\* '5' and 'x'
LeftChars == {53, 120}

\* the grid with one cell set
Cell1(x, y, g) == Place(x, y, <<g>>)

\* 'W' in column c of row r.  The cell above it and the cell left of it hold
\* a, the cell below it and the cell right of it hold b, so that the neighbour
\* test reads the same along the column and along the row; far is written
\* left of the left neighbour; a 'W' in column 0 has the glyph wrap at the
\* other end of its row.
PowerGrid(c, r, far, a, b, wrap) ==
    Cell1(c, r, OrdW) @@ Cell1(c, r - 1, a) @@ Cell1(c, r + 1, b)
    @@ (IF c > 0 THEN Place(c - 1 - Len(far), r, far \o <<a>>) ELSE Cell1(MAX_X - 1, r, wrap))
    @@ (IF c < MAX_X - 1 THEN Cell1(c + 1, r, b) ELSE <<>>)

\* a second reading "2W" in row 10, accepted along the column and along the row
SecondW == Place(MaxLeft + 2, 10, <<50, OrdW>>) @@ Cell1(MaxLeft + 3, 9, 49)

PowerGrids ==
    UNION { { PowerGrid(c, r, far, a, b, wrap) @@ more
              : far \in IF c > 0 THEN SeqsUpTo(LeftChars, MaxLeft) ELSE {<<>>},
                a \in IF c > 0 THEN {49, 120} ELSE {120},
                wrap \in IF c > 0 THEN {0} ELSE {0, 53} }
            : c \in {0, MaxLeft + 1, MAX_X - 1}, r \in {1, MAX_Y - 2},
              b \in {0, OrdSpace, 65}, more \in {<<>>, SecondW} }

InitPower ==
    /\ fr \in {MkFrame("FrameBetaflight", g) : g \in PowerGrids}
    /\ out = <<>>
    /\ ReaderIdle /\ TrackIdle

NextPower == CallExtractPower \/ CallExtractSpeed

SpecPower == InitPower /\ [][NextPower]_vars

\* a 'W' strictly inside the grid with an ASCII digit one row above and a
\* blank or a space one row below
PowerQualifies(ar, i) ==
    LET c == i \div MAX_Y
        r == i % MAX_Y
    IN  /\ ar[i] = OrdW
        /\ 0 < c /\ c < MAX_X - 1 /\ 0 < r /\ r < MAX_Y - 1
        /\ At(ar, i - 1) \in digits
        /\ At(ar, i + 1) \in {0, OrdSpace}

\* the maximal run of ASCII digits ending immediately left of cell i
DigitsLeftOf(ar, i) ==
    LET c == i \div MAX_Y
        r == i % MAX_Y
        n == CHOOSE k \in 0 .. MAX_X :
                 /\ \A j \in 1 .. k : RowAt(ar, c - j, r) \in digits
                 /\ RowAt(ar, c - k - 1, r) \notin digits
    IN  [j \in 1 .. n |-> RowAt(ar, c - n - 1 + j, r)]

\* C8: extract_power returns (D, 'W') for the first 'W' in column-major order
\* with a digit one row above and a blank or space one row below, D being the
\* maximal contiguous run of digits ending left of that 'W'; a 'W' failing the
\* test is skipped, and the result is (None, None) when no 'W' qualifies, a 'W'
\* in the first or last column or row included.
C8_PowerHeuristic ==
    "extract_power" \in DOMAIN out =>
        LET q == {i \in DOMAIN fr.ar : PowerQualifies(fr.ar, i)} IN
        out["extract_power"] =
            IF q = {} THEN NoneNone
            ELSE Ret(DigitsLeftOf(fr.ar, Least(q)), OrdW)

----------------------------------------------------------------------------
(* class Reader *)

\* frame_data_size in Reader.get_frame
frame_data_size == Frame_HEADER_SIZE + MAX_T * 2

\* the length of the file in bytes: the header bytes present, the complete
\* frame blocks and the bytes of a truncated last block
FileLen(f) == f.hlen + Len(f.blocks) * frame_data_size + f.tail

\* fileobj.seek(off); fileobj.read(frame_data_size) for a block-aligned off:
\* the number of bytes read and, when the read is complete, the block read
ReadBlock(f, off) ==
    LET avail == IF FileLen(f) > off THEN FileLen(f) - off ELSE 0
        got == IF avail < frame_data_size THEN avail ELSE frame_data_size
    IN  [len |-> got,
         k |-> IF got = frame_data_size
               THEN (off - Reader_HEADER_SIZE) \div frame_data_size + 1 ELSE 0]

\* Reader.__init__(fileobj): the exception raised, "" when the reader is built
Reader_init(f) ==
    IF f.hlen # Reader_HEADER_SIZE THEN "struct.error"
    ELSE IF f.magic # OSD_MAGIC THEN "ValueError"
    ELSE IF f.version # OSD_VERSION THEN "ValueError"
    ELSE ""

\* a frame, None, or an exception as the outcome of a Reader call
GotFrame(fm) == [exc |-> "", none |-> FALSE, frame |-> fm]

GotNone == [exc |-> "", none |-> TRUE, frame |-> NoFrame]

Raised(e) == [exc |-> e, none |-> TRUE, frame |-> NoFrame]

\* Reader.get_frame(index), n being the index
get_frame(r, f, n) ==
    LET off == Reader_HEADER_SIZE + frame_data_size * n IN
    IF off < 0 THEN Raised("OSError")
    ELSE
        LET b == ReadBlock(f, off) IN
        IF b.len # frame_data_size THEN GotNone
        ELSE IF r.font_variant = FontVariant_BETAFLIGHT
             THEN GotFrame([cls |-> "FrameBetaflight", frame_idx |-> f.blocks[b.k].frame_idx,
                            ar |-> f.blocks[b.k].ar])
        ELSE IF r.font_variant = FontVariant_INAV
             THEN GotFrame([cls |-> "FrameInav", frame_idx |-> f.blocks[b.k].frame_idx,
                            ar |-> f.blocks[b.k].ar])
        ELSE Raised("NotImplementedError")

\* Reader.__next__(): the outcome and the new _iter_index.  An exception of
\* get_frame leaves before the increment.
Reader_next(r, f) ==
    LET g == get_frame(r, f, r.iter_index) IN
    IF g.exc # "" THEN [res |-> g, iter_index |-> r.iter_index]
    ELSE IF g.none THEN [res |-> Raised("StopIteration"), iter_index |-> r.iter_index + 1]
    ELSE [res |-> g, iter_index |-> r.iter_index + 1]

\* Reader.__getitem__(item)
Reader_getitem(r, f, item) ==
    LET g == get_frame(r, f, item) IN
    IF g.exc = "" /\ g.none THEN Raised("IndexError") ELSE g

----------------------------------------------------------------------------
(* A Reader over a file, called in any order *)

\* frame blocks in a file, and __next__ calls in one iteration
MaxFrames == 2
MaxNexts == 4

\* indices tried with get_frame and reader[i] reach this far past the end
IndexArgs == 0 .. (MaxFrames + 1)

BadMagic == <<77, 83, 80, 79, 83, 68, 1>>

\* a frame block with a blank grid
Block(idx) == [frame_idx |-> idx, size |-> MAX_T * 2, ar |-> <<>>]

\* headers cut short (no blocks follow), and whole headers with any magic,
\* version and font variant, followed by blocks and possibly a truncated one
ReaderFiles ==
    { [hlen |-> Reader_HEADER_SIZE - 1, magic |-> OSD_MAGIC, version |-> OSD_VERSION,
       font_variant |-> 0, blocks |-> <<>>, tail |-> 0] }
    \cup
    { [hlen |-> Reader_HEADER_SIZE, magic |-> m, version |-> v, font_variant |-> fv,
       blocks |-> [k \in 1 .. n |-> Block(base + 3 * k)], tail |-> t]
      : m \in {OSD_MAGIC, BadMagic}, v \in {OSD_VERSION, OSD_VERSION + 1},
        fv \in 0 .. 3, n \in 0 .. MaxFrames, base \in {0, 5},
        t \in {0, frame_data_size - 1} }

InitReader ==
    /\ file \in ReaderFiles
    /\ rd = NoReader
    /\ ret = NoRet
    /\ nexts = 0
    /\ FrameIdle /\ TrackIdle

\* rd = Reader(fileobj)
Construct ==
    /\ rd.state = "none"
    /\ rd' = IF Reader_init(file) = ""
             THEN [state |-> "open", font_variant |-> file.font_variant, iter_index |-> 0]
             ELSE [rd EXCEPT !.state = "failed"]
    /\ ret' = [op |-> "__init__", arg |-> 0, res |-> Raised(Reader_init(file))]
    /\ UNCHANGED <<fr, out, file, nexts, args, trk>>

\* iter(rd)
CallIter ==
    /\ rd.state = "open"
    /\ rd' = [rd EXCEPT !.iter_index = 0]
    /\ nexts' = 0
    /\ ret' = [op |-> "__iter__", arg |-> 0, res |-> GotNone]
    /\ UNCHANGED <<fr, out, file, args, trk>>

\* next(rd)
CallNext ==
    /\ rd.state = "open"
    /\ nexts < MaxNexts
    /\ rd' = [rd EXCEPT !.iter_index = Reader_next(rd, file).iter_index]
    /\ nexts' = nexts + 1
    /\ ret' = [op |-> "__next__", arg |-> 0, res |-> Reader_next(rd, file).res]
    /\ UNCHANGED <<fr, out, file, args, trk>>

\* rd.get_frame(i)
CallGetFrame ==
    /\ rd.state = "open"
    /\ \E i \in IndexArgs : ret' = [op |-> "get_frame", arg |-> i, res |-> get_frame(rd, file, i)]
    /\ UNCHANGED <<fr, out, file, rd, nexts, args, trk>>

\* rd[i]
CallGetItem ==
    /\ rd.state = "open"
    /\ \E i \in IndexArgs : ret' = [op |-> "__getitem__", arg |-> i, res |-> Reader_getitem(rd, file, i)]
    /\ UNCHANGED <<fr, out, file, rd, nexts, args, trk>>

NextReader == Construct \/ CallIter \/ CallNext \/ CallGetFrame \/ CallGetItem

SpecReader == InitReader /\ [][NextReader]_vars

\* C1: a Reader over a file whose header has a wrong magic, a wrong version or
\* a font variant other than 1 or 2 fails at construction, whatever follows the
\* header, so no call is ever made on such a file.
C1_RejectedAtOpen ==
    rd.state = "open" =>
        /\ file.hlen = Reader_HEADER_SIZE
        /\ file.magic = OSD_MAGIC
        /\ file.version = OSD_VERSION
        /\ file.font_variant \in {FontVariant_BETAFLIGHT, FontVariant_INAV}

\* the frame stored at byte offset 15 + i*2648 of a file with more than i
\* complete blocks
StoredAt(f, i) == f.blocks[i + 1]

SameFrame(res, b) ==
    res.exc = "" /\ ~res.none /\ res.frame.frame_idx = b.frame_idx /\ res.frame.ar = b.ar

EndOfSequence(res) ==
    \/ res.exc = "" /\ res.none
    \/ res.exc \in {"StopIteration", "IndexError"}

\* C2: on a reader that was opened over N complete blocks, in every
\* interleaving of calls, get(i) returns the frame stored at 15 + i*2648 when
\* i < N and end-of-sequence when i >= N; the k-th next() since iteration began
\* returns frame k-1 while k <= N and end-of-sequence from then on.
C2_AccessAndIteration ==
    rd.state = "open" =>
        /\ ret.op \in {"get_frame", "__getitem__"} =>
              IF ret.arg < Len(file.blocks)
              THEN SameFrame(ret.res, StoredAt(file, ret.arg))
              ELSE EndOfSequence(ret.res)
        /\ ret.op = "__next__" =>
              IF nexts <= Len(file.blocks)
              THEN SameFrame(ret.res, StoredAt(file, nexts - 1))
              ELSE EndOfSequence(ret.res)

----------------------------------------------------------------------------
(* class Track *)

\* None where a str is expected: a one-element sequence no str equals
None == <<NoChar>>

\* the first element of the pair an extract_* call returned
ValueOf(r) == IF r.has THEN r.val ELSE None

\* `a or b` for a, b each a str or None
Or(a, b) == IF a = None \/ a = <<>> THEN b ELSE a

\* the five extract_* calls of the loop body, in the order made: the exception
\* that leaves the loop ("" if none) and the values lat, lon, alt, spd, pwr
Extract5(f) ==
    LET rs == <<extract_lat(f), extract_lon(f), extract_alt(f), extract_speed(f),
                extract_power(f)>>
        bad == {k \in 1 .. 5 : rs[k].exc # ""}
    IN  [exc |-> IF bad = {} THEN "" ELSE rs[CHOOSE k \in bad : \A j \in bad : k <= j].exc,
         v |-> [k \in 1 .. 5 |-> ValueOf(rs[k])]]

\* Dropped with the 'skip' test left out
Mut_Dropped(onerror, v) == \A k \in 1 .. 5 : v[k] = None

\* the two `continue` tests of the loop body: TRUE when the frame is dropped
Dropped(onerror, v) ==
    \/ \A k \in 1 .. 5 : v[k] = None
    \/ onerror = "skip" /\ \E k \in 1 .. 5 : v[k] = None

\* Filled with power taken from the slot of prev that follows speed
Mut_Filled(onerror, v, prev) ==
    IF onerror = "empty" THEN [k \in 1 .. 5 |-> Or(v[k], <<>>)]
    ELSE IF onerror = "prev"
         THEN <<Or(v[1], prev[1]), Or(v[2], prev[2]), Or(v[3], prev[3]), Or(v[4], prev[4]),
                Or(v[5], prev[5])>>
    ELSE v

\* lat, lon, alt, spd, pwr after the onerror branch
Filled(onerror, v, prev) ==
    IF onerror = "empty" THEN [k \in 1 .. 5 |-> Or(v[k], <<>>)]
    ELSE IF onerror = "prev"
         THEN <<Or(v[1], prev[1]), Or(v[2], prev[2]), Or(v[3], prev[3]), Or(v[4], prev[4]),
                Or(v[5], prev[6])>>
    ELSE v

\* prev after the onerror branch: (lat, lon, alt, spd, None, pwr) under 'prev'
NewPrev(onerror, w, prev) ==
    IF onerror = "prev" THEN <<w[1], w[2], w[3], w[4], None, w[5]>> ELSE prev

\* ts = int(frame_idx * 1000 / fps)
Timestamp(frame_idx, fps) == (frame_idx * 1000) \div fps

\* the list appended to self.points, named by self.header
Point(w, ts) ==
    [latitude |-> w[1], longitude |-> w[2], altitude |-> w[3], speed |-> w[4],
     time_ms |-> ts, power |-> w[5]]

\* prev = [''] * len(self.header)
InitialPrev == [k \in 1 .. 6 |-> <<>>]

----------------------------------------------------------------------------
(* Track.__init__ over a file *)

\* frame blocks in a file a track is built from
MaxTrack == 3

\* what a test frame shows of a quantity: 0 nothing, 1 its tag with no digits,
\* 2 and 3 its tag with a reading, 4 its tag next to a glyph above 0xFF
Reading(q, e) ==
    IF e = 2 THEN <<Ord0 + q>>
    ELSE IF e = 3 THEN <<Ord0 + q, Ord0 + q>>
    ELSE IF e = 4 THEN <<256>>
    ELSE <<>>

\* the row of quantity q (1 lat, 2 lon, 3 alt, 4 speed, 5 power) in a Variant A
\* frame: the tag and then the reading; the power reading and then 'W'
BetaflightRow(q, e) ==
    IF e = 0 THEN <<>>
    ELSE IF q = 5 THEN Reading(q, e) \o <<OrdW>>
    ELSE <<BetaflightTagSeq[q]>> \o Reading(q, e)

\* ... and in a Variant B frame: latitude and longitude after their tags,
\* altitude, speed (km/h) and power before theirs
InavRow(q, e) ==
    IF e = 0 THEN <<>>
    ELSE IF q = 1 THEN <<CharsInav_LAT>> \o Reading(q, e)
    ELSE IF q = 2 THEN <<CharsInav_LON>> \o Reading(q, e)
    ELSE IF q = 3 THEN Reading(q, e) \o <<CharsInav_ALT>>
    ELSE IF q = 4 THEN Reading(q, e) \o <<CharsInav_SPEED_KMPH>>
    ELSE Reading(q, e) \o <<CharsInav_WATT>>

\* the grid of a test frame of shape sh (one entry per quantity), rows 0..4
ShapeGrid(fv, sh) ==
    Stack([q \in 1 .. 5 |-> IF fv = FontVariant_BETAFLIGHT THEN BetaflightRow(q, sh[q])
                            ELSE InavRow(q, sh[q])], 1, 0)

\* nothing; everything; altitude only; power only; an empty latitude only; an
\* empty latitude and everything else; a latitude that cannot be read
Shapes ==
    { <<0, 0, 0, 0, 0>>, <<2, 2, 2, 2, 2>>, <<0, 0, 3, 0, 0>>, <<0, 0, 0, 0, 3>>,
      <<1, 0, 0, 0, 0>>, <<1, 3, 3, 3, 3>>, <<4, 2, 2, 2, 2>> }

\* frame indices 6, 6, 12, 12, ..: increasing, not contiguous, with repeats
FrameIdx(k) == 6 * ((k + 1) \div 2)

TrackFile(m, fv, shs) ==
    [hlen |-> Reader_HEADER_SIZE, magic |-> m, version |-> OSD_VERSION, font_variant |-> fv,
     blocks |-> [k \in 1 .. Len(shs) |->
                    [frame_idx |-> FrameIdx(k), size |-> MAX_T * 2, ar |-> ShapeGrid(fv, shs[k])]],
     tail |-> 0]

TrackFiles ==
    {TrackFile(OSD_MAGIC, fv, shs) : fv \in {FontVariant_BETAFLIGHT, FontVariant_INAV},
                                     shs \in SeqsUpTo(Shapes, MaxTrack)}
    \cup {TrackFile(BadMagic, FontVariant_BETAFLIGHT, <<>>),
          TrackFile(OSD_MAGIC, 3, << <<2, 2, 2, 2, 2>> >>)}

Policies == {"skip", "empty", "prev"}

InitTrack ==
    /\ file \in TrackFiles
    /\ args \in [onerror : Policies, fps : {60}]
    /\ rd = NoReader
    /\ ret = NoRet
    /\ nexts = 0
    /\ trk = NoTrack
    /\ FrameIdle

\* Track.__init__ up to the loop: prev = [''] * 6, rd = Reader(fp), iter(rd)
TrackOpen ==
    /\ trk.pc = "idle"
    /\ IF Reader_init(file) = ""
       THEN /\ rd' = [state |-> "open", font_variant |-> file.font_variant, iter_index |-> 0]
            /\ trk' = [pc |-> "loop", prev |-> InitialPrev, points |-> <<>>]
       ELSE /\ rd' = [rd EXCEPT !.state = "failed"]
            /\ trk' = [trk EXCEPT !.pc = "raised"]
    /\ UNCHANGED <<fr, out, file, ret, nexts, args>>

\* one turn of `for fr in rd`: next(rd) and the loop body
TrackStep ==
    /\ trk.pc = "loop"
    /\ \E nx \in {Reader_next(rd, file)} :
       \E e \in {Extract5(nx.res.frame)} :
       \E w \in {Filled(args.onerror, e.v, trk.prev)} :
           /\ rd' = [rd EXCEPT !.iter_index = nx.iter_index]
           /\ IF nx.res.exc = "StopIteration" THEN trk' = [trk EXCEPT !.pc = "done"]
              ELSE IF nx.res.exc # "" THEN trk' = [trk EXCEPT !.pc = "raised"]
              ELSE IF e.exc # "" THEN trk' = [trk EXCEPT !.pc = "raised"]
              ELSE IF Dropped(args.onerror, e.v) THEN trk' = trk
              ELSE trk' = [pc |-> "loop",
                           prev |-> NewPrev(args.onerror, w, trk.prev),
                           points |-> Append(trk.points,
                                             Point(w, Timestamp(nx.res.frame.frame_idx, args.fps)))]
    /\ UNCHANGED <<fr, out, file, ret, nexts, args>>

NextTrack == TrackOpen \/ TrackStep

SpecTrack == InitTrack /\ [][NextTrack]_vars

\* the track is being built or has been built
Building == trk.pc \in {"loop", "done"}

\* the number of frames the loop has taken from the reader
Consumed == IF trk.pc = "done" THEN Len(file.blocks) ELSE rd.iter_index

\* the k-th frame of the file as the reader hands it out
FrameNo(k) ==
    [cls |-> IF file.font_variant = FontVariant_BETAFLIGHT THEN "FrameBetaflight" ELSE "FrameInav",
     frame_idx |-> file.blocks[k].frame_idx, ar |-> file.blocks[k].ar]

\* the five values extracted from each frame taken so far
Extracted == [k \in 1 .. Consumed |-> Extract5(FrameNo(k)).v]

\* the keep rule: a frame is dropped iff all five quantities are absent, or
\* the policy is skip and at least one is absent
Passes(x) ==
    ~ \/ \A q \in 1 .. 5 : x[q] = None
      \/ args.onerror = "skip" /\ \E q \in 1 .. 5 : x[q] = None

\* the positions in 1..n of the frames that pass the keep rule, in order
RECURSIVE KeptUpTo(_, _)
KeptUpTo(xs, n) ==
    IF n = 0 THEN <<>>
    ELSE IF Passes(xs[n]) THEN Append(KeptUpTo(xs, n - 1), n)
    ELSE KeptUpTo(xs, n - 1)

\* the five quantities of an emitted point
Quantities(p) == <<p.latitude, p.longitude, p.altitude, p.speed, p.power>>

\* C4: the emitted points are, in frame order and one each, the frames that
\* pass the keep rule (dropped iff all five quantities are absent, or the policy
\* is skip and one is absent), frames with a repeated frame index included;
\* under skip a point carries the extracted values, and under empty every
\* absent quantity is the empty string.
C4_KeptSubsequence ==
    Building =>
        LET xs == Extracted
            kept == KeptUpTo(xs, Consumed)
        IN  /\ Len(trk.points) = Len(kept)
            /\ \A j \in 1 .. Len(kept) :
                  LET p == trk.points[j]
                      x == xs[kept[j]]
                  IN  /\ p.time_ms = Timestamp(file.blocks[kept[j]].frame_idx, args.fps)
                      /\ \A q \in 1 .. 5 :
                            /\ args.onerror = "skip" => Quantities(p)[q] = x[q]
                            /\ args.onerror = "empty" =>
                                  Quantities(p)[q] = IF x[q] = None THEN <<>> ELSE x[q]
                            /\ (args.onerror = "prev" /\ x[q] \notin {None, <<>>}) =>
                                  Quantities(p)[q] = x[q]

\* a finished track under skip that kept one frame, dropped a frame with
\* nothing in it and dropped a frame with only some quantities
C4_Witness ==
    /\ trk.pc = "done"
    /\ args.onerror = "skip"
    /\ Len(trk.points) = 1 /\ Len(file.blocks) = 3
    /\ \E k \in 1 .. Len(file.blocks) : \A q \in 1 .. 5 : Extracted[k][q] = None
    /\ \E k \in 1 .. Len(file.blocks) :
          /\ \E q \in 1 .. 5 : Extracted[k][q] = None
          /\ \E q \in 1 .. 5 : Extracted[k][q] # None

\* the quantity q of the point before point j ("" before the first point)
Before(j, q) == IF j = 1 THEN <<>> ELSE Quantities(trk.points[j - 1])[q]

\* the state carried to the next frame is the last emitted point, without its
\* timestamp
CarriedIsLastPoint ==
    trk.prev = IF trk.points = <<>> THEN InitialPrev
               ELSE LET p == trk.points[Len(trk.points)]
                    IN  <<p.latitude, p.longitude, p.altitude, p.speed, None, p.power>>

\* C3 as stated: under prev every quantity of an emitted point is the value
\* extracted from its own frame when that value is present, and otherwise that
\* quantity of the preceding emitted point ("" if there is none).
C3_PresentOrCarried ==
    (Building /\ args.onerror = "prev") =>
        LET xs == Extracted
            kept == KeptUpTo(xs, Consumed)
        IN  \A j \in 1 .. Len(trk.points) : \A q \in 1 .. 5 :
                Quantities(trk.points[j])[q] =
                    IF xs[kept[j]][q] # None THEN xs[kept[j]][q] ELSE Before(j, q)

\* C3 (amended): under prev every quantity of an emitted point is the value
\* extracted from its own frame when that value is present and not the empty
\* string, and otherwise (absent, or present but empty) that quantity of the
\* preceding emitted point ("" if there is none); each quantity is carried in
\* its own slot, dropped frames leave the carried state alone, and the
\* timestamp is the frame's own and is never carried.
C3_NonEmptyOrCarried ==
    (Building /\ args.onerror = "prev") =>
        LET xs == Extracted
            kept == KeptUpTo(xs, Consumed)
        IN  /\ Len(trk.points) = Len(kept)
            /\ \A j \in 1 .. Len(trk.points) :
                  /\ trk.points[j].time_ms = Timestamp(file.blocks[kept[j]].frame_idx, args.fps)
                  /\ \A q \in 1 .. 5 :
                        Quantities(trk.points[j])[q] =
                            IF xs[kept[j]][q] \notin {None, <<>>} THEN xs[kept[j]][q]
                            ELSE Before(j, q)
            /\ CarriedIsLastPoint

\* under prev, a frame showing only its power followed a frame showing
\* everything, with a frame showing nothing dropped in between: the point took
\* its power from its own frame and the four other quantities from the point
\* before
C3_Witness ==
    /\ Building /\ args.onerror = "prev"
    /\ Consumed = 3 /\ Len(trk.points) = 2
    /\ \A q \in 1 .. 5 : Extracted[1][q] \notin {None, <<>>}
    /\ \A q \in 1 .. 5 : Extracted[2][q] = None
    /\ \A q \in 1 .. 4 : Extracted[3][q] = None
    /\ Extracted[3][5] \notin {None, <<>>}
    /\ trk.points[2].power = Extracted[3][5]
    /\ trk.points[2].power # trk.points[1].power
    /\ \A q \in 1 .. 4 : Quantities(trk.points[2])[q] = Extracted[1][q]

====
